---- MODULE Spec2Model ----
(***************************************************************************)
(* go-db: the container lifecycle orchestrator of                          *)
(* src/src/databases/postgres/postgres.go, as a state machine.  Every      *)
(* docker subprocess the code starts is one atomic step against the        *)
(* engine's container table; a command (CreateWithConfig, Start, Stop,     *)
(* Remove) is the sequence of its steps.                                   *)
(***************************************************************************)
EXTENDS Integers, Sequences, FiniteSets, TLC

VARIABLES
    containers,      \* the engine's containers, newest first (order of docker ps)
    images,          \* image versions present in the engine's local cache
    busy,            \* host ports bound by processes other than the engine
    dockerInstalled, \* whether "docker" resolves on the executable search path
    pc,              \* position of each CLI process
    cmd,             \* the command each CLI process is executing
    cfgPort,         \* cfg.Port of the running create (rewritten by the probe)
    exists,          \* local: first result of containerExists
    running,         \* local: second result of containerExists
    attempts,        \* local: i of waitForPostgres
    probes,          \* number of net.Listen attempts made by the invocation
    calls,           \* per invocation: the subprocesses started, in order
    result,          \* the error (or "ok") the command returned
    summary,         \* what printConnectionDetails printed, or NoSummary
    envMap,          \* local: env of ShowConnectionDetails, as the key/value
                     \* pairs in the order they were put
    argv,            \* os.Args of each CLI process
    exitCode,        \* the exit status of each CLI process, NotExited before
    lastEvent        \* history, per tracked name: the last of "a create timed
                     \* out waiting for it", "a remove of it succeeded", "a
                     \* run created it"

\* the state of the command line front end, which the operations of the
\* postgres package never touch
front == <<argv, exitCode>>

vars == <<containers, images, busy, dockerInstalled, pc, cmd, cfgPort, exists,
          running, attempts, probes, calls, result, summary, envMap, argv,
          exitCode, lastEvent>>

(***************************************************************************)
(* Program constants.                                                      *)
(***************************************************************************)
defaultPort == 5432
defaultPostgresVersion == "15"
PortWindow == 100
maxAttempts == 10

(***************************************************************************)
(* Input domains.  A name is a sequence of characters, so that the name    *)
(* filter of docker ps can be computed as the substring match it is.       *)
(***************************************************************************)
NameDb == <<"d", "b">>
NameMyDb == <<"m", "y", "d", "b">>
EmptyName == <<>>
Names == {NameDb, NameMyDb}
CustomPort == defaultPort + 568
Versions == {"15", "16"}
Procs == {1, 2}
SeqProcs == {1}

\* An argument is a word: the sequence of text pieces whose concatenation
\* it is; the empty string is the empty word.
WRm == <<"r", "m">>
WForce == <<"-", "f">>
WRun == <<"run">>
WNameFlag == <<"--name">>
WEnv == <<"-e">>
WPublish == <<"-p">>
WDetach == <<"-d">>
WVolume == <<"-v">>
WMemory == <<"--memory">>
WCpus == <<"--cpus">>
WNetwork == <<"--network">>
EmptyWord == <<>>

NoCmd ==
    [kind |-> "none", name |-> EmptyName, force |-> FALSE, port |-> 0, version |-> "15",
     custom |-> FALSE]
NoSummary ==
    [shown |-> FALSE, host |-> "", port |-> 0, uriPort |-> 0, name |-> EmptyName,
     user |-> EmptyWord, password |-> EmptyWord, database |-> EmptyWord, rows |-> <<>>]
NoArgv == <<>>
NotExited == -1

(***************************************************************************)
(* The engine's side of each subprocess.                                   *)
(***************************************************************************)
IsSubstring(s, t) ==
    \E i \in 0..(Len(t) - Len(s)) : SubSeq(t, i + 1, i + Len(s)) = s

StatusOf(c) == IF c.running THEN "Up" ELSE "Exited"

\* docker ps -a --filter name=<name> --format {{.Status}}: one status line
\* per container whose name contains <name>, newest container first.
RECURSIVE PsStatus(_, _)
PsStatus(cs, name) ==
    IF cs = <<>> THEN <<>>
    ELSE IF IsSubstring(name, Head(cs).name)
         THEN <<StatusOf(Head(cs))>> \o PsStatus(Tail(cs), name)
         ELSE PsStatus(Tail(cs), name)

HasContainer(cs, name) == \E i \in 1..Len(cs) : cs[i].name = name
IsRunning(cs, name) == \E i \in 1..Len(cs) : cs[i].name = name /\ cs[i].running

\* a host port is occupied when another process holds it or a running
\* container publishes it
Occupied(cs, b, port) ==
    \/ port \in b
    \/ \E i \in 1..Len(cs) : cs[i].running /\ cs[i].port = port

SetRunning(cs, name, r) ==
    [i \in 1..Len(cs) |-> IF cs[i].name = name THEN [cs[i] EXCEPT !.running = r] ELSE cs[i]]

RECURSIVE Without(_, _)
Without(cs, name) ==
    IF cs = <<>> THEN <<>>
    ELSE IF Head(cs).name = name THEN Without(Tail(cs), name)
         ELSE <<Head(cs)>> \o Without(Tail(cs), name)

(***************************************************************************)
(* findAvailablePort: the first port of startPort .. startPort+99 that     *)
(* binds; 0 stands for the error return.                                   *)
(***************************************************************************)
FreeInWindow(cs, b, startPort) ==
    {q \in startPort..(startPort + PortWindow - 1) : ~Occupied(cs, b, q)}

Min(S) == CHOOSE x \in S : \A y \in S : x <= y

\* the loop of findAvailablePort from port on: the port that binds and the
\* number of net.Listen calls made, port 0 when the loop runs out
\* (the loop tries port, port+1, ... below limit in ascending order and stops
\* at the first one that binds, so it ends at the least free port it visits)
ProbeLoop(cs, b, port, limit, n) ==
    LET tried == port..(limit - 1)
        free  == {q \in tried : ~Occupied(cs, b, q)}
    IN  IF free = {} THEN [port |-> 0, n |-> n + Cardinality(tried)]
        ELSE [port |-> Min(free), n |-> n + (Min(free) - port) + 1]

\* a loop that also tries startPort+100
findAvailablePort_oneMore(cs, b, startPort) ==
    ProbeLoop(cs, b, startPort, startPort + PortWindow + 1, 0).port

\* a probe that skips the bind and answers the start port
findAvailablePort_noBind(cs, b, startPort) == startPort

findAvailablePort(cs, b, startPort) ==
    ProbeLoop(cs, b, startPort, startPort + PortWindow, 0).port

\* the number of net.Listen calls findAvailablePort makes
findAvailablePortProbes(cs, b, startPort) ==
    ProbeLoop(cs, b, startPort, startPort + PortWindow, 0).n

(***************************************************************************)
(* buildDockerArgs: the argument list of docker run for a configuration.   *)
(***************************************************************************)
DigitChar == <<"0", "1", "2", "3", "4", "5", "6", "7", "8", "9">>

\* fmt.Sprintf("%d", n)
RECURSIVE Itoa(_)
Itoa(n) ==
    IF n < 10 THEN <<DigitChar[n + 1]>>
    ELSE Itoa(n \div 10) \o <<DigitChar[(n % 10) + 1]>>

InitDir == "/docker-entrypoint-initdb.d/"

\* the path an init script is mounted at
InitTarget_oneBased(i) ==
    <<InitDir, "i", "n", "i", "t", "_">> \o Itoa(i + 1) \o <<".", "s", "q", "l">>

InitTarget(i) ==
    <<InitDir, "i", "n", "i", "t", "_">> \o Itoa(i) \o <<".", "s", "q", "l">>

InitMount(script, i) == script \o <<":">> \o InitTarget(i) \o <<":ro">>

\* for i, script := range cfg.InitScripts, from 0-based index i on
RECURSIVE InitScriptArgs(_, _)
InitScriptArgs(scripts, i) ==
    IF i >= Len(scripts) THEN <<>>
    ELSE <<WVolume, InitMount(scripts[i + 1], i)>> \o InitScriptArgs(scripts, i + 1)

RECURSIVE EnvArgs(_)
EnvArgs(env) ==
    IF env = <<>> THEN <<>>
    ELSE <<WEnv, Head(env).k \o <<"=">> \o Head(env).v>> \o EnvArgs(Tail(env))

RECURSIVE NetworkArgs(_)
NetworkArgs(nets) ==
    IF nets = <<>> THEN <<>>
    ELSE <<WNetwork, Head(nets)>> \o NetworkArgs(Tail(nets))

RECURSIVE ExtraMountArgs(_)
ExtraMountArgs(ms) ==
    IF ms = <<>> THEN <<>>
    ELSE <<WVolume, Head(ms)>> \o ExtraMountArgs(Tail(ms))

SSLCertTarget == <<":/var/lib/postgresql/server.crt">>
SSLKeyTarget == <<":/var/lib/postgresql/server.key">>
SSLRootTarget == <<":/var/lib/postgresql/root.crt">>
SSLDisable == <<"disable">>

\* SSL mounts whenever a certificate is given, whatever the mode and the key
SSLArgs_certOnly(cfg) ==
    IF cfg.sslCert # EmptyWord
    THEN <<WVolume, cfg.sslCert \o SSLCertTarget, WVolume, cfg.sslKey \o SSLKeyTarget>>
         \o (IF cfg.sslRootCert # EmptyWord
             THEN <<WVolume, cfg.sslRootCert \o SSLRootTarget>> ELSE <<>>)
    ELSE <<>>

\* "Handle SSL configuration"
SSLArgs(cfg) ==
    IF cfg.sslMode # SSLDisable
    THEN IF cfg.sslCert # EmptyWord /\ cfg.sslKey # EmptyWord
         THEN <<WVolume, cfg.sslCert \o SSLCertTarget, WVolume, cfg.sslKey \o SSLKeyTarget>>
              \o (IF cfg.sslRootCert # EmptyWord
                  THEN <<WVolume, cfg.sslRootCert \o SSLRootTarget>> ELSE <<>>)
         ELSE <<>>
    ELSE <<>>

buildDockerArgs(cfg) ==
    <<WRun,
      WNameFlag, cfg.name,
      WEnv, <<"POSTGRES_PASSWORD=">> \o cfg.password,
      WEnv, <<"POSTGRES_USER=">> \o cfg.username,
      WEnv, <<"POSTGRES_DB=">> \o cfg.database,
      WEnv, <<"TZ=">> \o cfg.timezone,
      WEnv, <<"LANG=">> \o cfg.locale,
      WPublish, cfg.port \o <<":5432">>,
      WDetach>>
    \o EnvArgs(cfg.environment)
    \o (IF cfg.volume # EmptyWord
        THEN <<WVolume, cfg.volume \o <<":/var/lib/postgresql/data">>>> ELSE <<>>)
    \o (IF cfg.memory # EmptyWord THEN <<WMemory, cfg.memory>> ELSE <<>>)
    \o (IF cfg.cpu # EmptyWord THEN <<WCpus, cfg.cpu>> ELSE <<>>)
    \o NetworkArgs(cfg.networks)
    \o ExtraMountArgs(cfg.extraMounts)
    \o SSLArgs(cfg)
    \o (IF Len(cfg.initScripts) > 0 THEN InitScriptArgs(cfg.initScripts, 0) ELSE <<>>)
    \o <<<<"postgres:", cfg.version>>>>

\* the name DefaultConfig makes up for an empty one: "postgres-" and the time
StampName == <<"postgres-", "20060102-150405">>

\* the password is the one utils.GenerateSecurePassword returned
DefaultConfig(name) ==
    LET n == IF name = EmptyName THEN StampName ELSE name IN
    [name |-> n, version |-> defaultPostgresVersion, port |-> Itoa(defaultPort),
     password |-> <<"generated">>, username |-> <<"postgres">>, database |-> n,
     timezone |-> <<"UTC">>, locale |-> <<"en_US.utf8">>, environment |-> <<>>,
     volume |-> EmptyWord, memory |-> EmptyWord, cpu |-> EmptyWord,
     networks |-> <<>>, extraMounts |-> <<>>, sslMode |-> SSLDisable,
     sslCert |-> EmptyWord, sslKey |-> EmptyWord, sslRootCert |-> EmptyWord,
     initScripts |-> <<>>]

\* the values of the create-custom flags before the command line is parsed
NewPostgresFlags ==
    [version |-> "15", port |-> Itoa(5432), password |-> <<"postgres">>,
     user |-> <<"postgres">>, db |-> <<"postgres">>, volume |-> EmptyWord,
     memory |-> EmptyWord, cpu |-> EmptyWord,
     name |-> <<"g", "o", "-", "d", "b", "s", "-", "p", "o", "s", "t", "g", "r", "e", "s">>,
     timezone |-> <<"UTC">>, locale |-> <<"en_US.utf8">>, networks |-> EmptyWord,
     initScripts |-> EmptyWord, sslMode |-> SSLDisable, sslCert |-> EmptyWord,
     sslKey |-> EmptyWord, sslRootCert |-> EmptyWord]

\* strings.Split(w, ","): the pieces between the commas, each as a word
RECURSIVE SplitComma(_, _)
SplitComma(w, cur) ==
    IF w = <<>> THEN <<cur>>
    ELSE IF Head(w) = "," THEN <<cur>> \o SplitComma(Tail(w), <<>>)
    ELSE SplitComma(Tail(w), Append(cur, Head(w)))

\* the configuration made from the flags
BuildConfig(f) ==
    [name |-> f.name, version |-> f.version, port |-> f.port,
     password |-> f.password, username |-> f.user, database |-> f.db,
     timezone |-> f.timezone, locale |-> f.locale, environment |-> <<>>,
     volume |-> f.volume, memory |-> f.memory, cpu |-> f.cpu,
     networks |-> IF f.networks # EmptyWord THEN SplitComma(f.networks, <<>>) ELSE <<>>,
     extraMounts |-> <<>>, sslMode |-> f.sslMode,
     sslCert |-> f.sslCert, sslKey |-> f.sslKey, sslRootCert |-> f.sslRootCert,
     initScripts |-> IF f.initScripts # EmptyWord THEN SplitComma(f.initScripts, <<>>) ELSE <<>>]

\* the configuration of a create command with the port create goes on with:
\* for create-custom the one BuildConfig makes of the flags the command
\* line set, else DefaultConfig with the command's name and version
ConfigOf(c, port) ==
    IF c.custom
    THEN [BuildConfig([NewPostgresFlags EXCEPT !.name = c.name, !.version = c.version])
             EXCEPT !.port = Itoa(port)]
    ELSE [DefaultConfig(c.name) EXCEPT !.version = c.version, !.port = Itoa(port)]

\* the environment docker run gives the container: the values of its -e
\* arguments in order, then the variables the image itself sets
RECURSIVE EnvOfArgs(_)
EnvOfArgs(args) ==
    IF Len(args) < 2 THEN <<>>
    ELSE IF Head(args) = WEnv THEN <<args[2]>> \o EnvOfArgs(Tail(Tail(args)))
    ELSE EnvOfArgs(Tail(args))

ImageEnv == <<<<"PATH=", "/usr/local/bin">>, <<"PGDATA">>>>

ContainerEnv(cfg) == EnvOfArgs(buildDockerArgs(cfg)) \o ImageEnv

(***************************************************************************)
(* containerExists: the pair (exists, running) computed from the output    *)
(* of the status query; psOk is the subprocess's exit status.              *)
(***************************************************************************)
containerExists(cs, name, psOk) ==
    IF ~psOk THEN <<FALSE, FALSE>>
    ELSE IF PsStatus(cs, name) = <<>> THEN <<FALSE, FALSE>>
    ELSE <<TRUE, PsStatus(cs, name)[1] = "Up">>

PsRes(cs, name, psOk) ==
    IF ~psOk THEN "fail"
    ELSE IF PsStatus(cs, name) = <<>> THEN "empty" ELSE "found"

Call(op, name, args, res) == [op |-> op, name |-> name, args |-> args, res |-> res]

Log(p, entry) == calls' = [calls EXCEPT ![p] = Append(@, entry)]

Return(p, r) ==
    /\ pc' = [pc EXCEPT ![p] = "done"]
    /\ result' = [result EXCEPT ![p] = r]

Goto(p, l) ==
    /\ pc' = [pc EXCEPT ![p] = l]
    /\ UNCHANGED result

\* history of a name
Note(name, e) ==
    lastEvent' = IF name \in DOMAIN lastEvent THEN [lastEvent EXCEPT ![name] = e]
                 ELSE lastEvent

\* exit status of a subprocess: it fails when the binary is missing, and it
\* may fail for reasons of the engine's own (daemon unreachable, ...)
ExitOk(ok) == ok /\ dockerInstalled

(***************************************************************************)
(* Initial states: any engine content over the names, no command running.  *)
(***************************************************************************)
InitContainer(n, r) ==
    [name |-> n, running |-> r, port |-> 0, version |-> defaultPostgresVersion,
     env |-> ContainerEnv(DefaultConfig(n))]

InitialEngines ==
    {<<>>}
    \cup {<<InitContainer(n, r)>> : n \in Names, r \in BOOLEAN}
    \cup {cs \in {<<InitContainer(n1, r1), InitContainer(n2, r2)>> :
                       n1 \in Names, n2 \in Names, r1 \in BOOLEAN, r2 \in BOOLEAN} :
             cs[1].name # cs[2].name}

InitialBusy ==
    {{}, {defaultPort}, defaultPort..(defaultPort + PortWindow - 2),
     defaultPort..(defaultPort + PortWindow - 1), defaultPort..(defaultPort + PortWindow)}

Init ==
    /\ containers \in InitialEngines
    /\ images \in {{}, {defaultPostgresVersion}}
    /\ busy \in InitialBusy
    /\ dockerInstalled \in BOOLEAN
    /\ pc = [p \in Procs |-> "idle"]
    /\ cmd = [p \in Procs |-> NoCmd]
    /\ cfgPort = [p \in Procs |-> 0]
    /\ exists = [p \in Procs |-> FALSE]
    /\ running = [p \in Procs |-> FALSE]
    /\ attempts = [p \in Procs |-> 0]
    /\ probes = [p \in Procs |-> 0]
    /\ calls = [p \in Procs |-> <<>>]
    /\ result = [p \in Procs |-> "none"]
    /\ summary = [p \in Procs |-> NoSummary]
    /\ envMap = [p \in Procs |-> <<>>]
    /\ argv = [p \in Procs |-> NoArgv]
    /\ exitCode = [p \in Procs |-> NotExited]
    /\ lastEvent = <<>>

(***************************************************************************)
(* A CLI process is started with one command.                              *)
(***************************************************************************)
Commands ==
    [kind : {"create"}, name : Names \cup {EmptyName}, force : {FALSE},
     port : {defaultPort, CustomPort}, version : Versions, custom : {FALSE}]
    \cup [kind : {"start", "stop"}, name : Names, force : {FALSE},
          port : {0}, version : {"15"}, custom : {FALSE}]
    \cup [kind : {"remove"}, name : Names, force : BOOLEAN,
          port : {0}, version : {"15"}, custom : {FALSE}]
    \cup [kind : {"list"}, name : {EmptyName}, force : {FALSE},
          port : {0}, version : {"15"}, custom : {FALSE}]

FirstLabel(kind) ==
    CASE kind = "create" -> "c_enter"
      [] kind = "start" -> "start_check"
      [] kind = "stop" -> "stop_check"
      [] kind = "remove" -> "rm_check"
      [] kind = "list" -> "list_version"
      [] kind = "show" -> "show_check"

Begin(p) ==
    /\ pc[p] \in {"idle", "done"}
    /\ \E c \in Commands :
          /\ cmd' = [cmd EXCEPT ![p] = c]
          /\ pc' = [pc EXCEPT ![p] = FirstLabel(c.kind)]
          /\ cfgPort' = [cfgPort EXCEPT ![p] = c.port]
    /\ exists' = [exists EXCEPT ![p] = FALSE]
    /\ running' = [running EXCEPT ![p] = FALSE]
    /\ attempts' = [attempts EXCEPT ![p] = 0]
    /\ probes' = [probes EXCEPT ![p] = 0]
    /\ calls' = [calls EXCEPT ![p] = <<>>]
    /\ result' = [result EXCEPT ![p] = "none"]
    /\ summary' = [summary EXCEPT ![p] = NoSummary]
    /\ envMap' = [envMap EXCEPT ![p] = <<>>]
    /\ UNCHANGED <<front, lastEvent, containers, images, busy, dockerInstalled>>

(***************************************************************************)
(* CreateWithConfig.                                                       *)
(***************************************************************************)
\* cfg.ContainerName == ""
NameMissing_skipped(name) == FALSE

NameMissing(name) == name = EmptyName

\* exec.LookPath("docker") returns an error
EngineMissing_ignored(installed) == FALSE

EngineMissing(installed) == ~installed

\* the name check and exec.LookPath
CreateEnter(p) ==
    /\ pc[p] = "c_enter"
    /\ IF NameMissing(cmd[p].name)
       THEN /\ Return(p, "Validation")
            /\ UNCHANGED calls
       ELSE /\ Log(p, Call("lookpath", EmptyName, <<>>, IF dockerInstalled THEN "ok" ELSE "fail"))
            /\ IF ~EngineMissing(dockerInstalled) THEN Goto(p, "c_exists")
               ELSE Return(p, "EngineNotFound")
    /\ UNCHANGED <<front, envMap, lastEvent, containers, images, busy, dockerInstalled, cmd, cfgPort,
                   exists, running, attempts, probes, summary>>

\* "Check if container already exists"
CreateCheckExists(p) ==
    /\ pc[p] = "c_exists"
    /\ \E ok \in BOOLEAN :
          LET r == containerExists(containers, cmd[p].name, ExitOk(ok)) IN
          /\ Log(p, Call("ps", cmd[p].name, <<>>, PsRes(containers, cmd[p].name, ExitOk(ok))))
          /\ exists' = [exists EXCEPT ![p] = r[1]]
          /\ running' = [running EXCEPT ![p] = r[2]]
          /\ IF r[1] THEN Return(p, "AlreadyExists") ELSE Goto(p, "c_port")
    /\ UNCHANGED <<front, envMap, lastEvent, containers, images, busy, dockerInstalled, cmd, cfgPort,
                   attempts, probes, summary>>

\* cfg.Port == defaultPort
PortIsDefault_always(port) == TRUE

PortIsDefault(port) == port = defaultPort

\* "Find available port if default is taken"
CreateFindPort(p) ==
    /\ pc[p] = "c_port"
    /\ IF PortIsDefault(cfgPort[p])
       THEN LET port == findAvailablePort(containers, busy, 5432) IN
            /\ probes' = [probes EXCEPT ![p] = findAvailablePortProbes(containers, busy, 5432)]
            /\ IF port = 0
               THEN Return(p, "NoAvailablePort") /\ UNCHANGED cfgPort
               ELSE Goto(p, "c_images") /\ cfgPort' = [cfgPort EXCEPT ![p] = port]
       ELSE Goto(p, "c_images") /\ UNCHANGED <<cfgPort, probes>>
    /\ UNCHANGED <<front, envMap, lastEvent, containers, images, busy, dockerInstalled, cmd, exists,
                   running, attempts, calls, summary>>

\* step "Pulling PostgreSQL image": docker images -q, then docker pull when
\* the query printed nothing
CreateImages(p) ==
    /\ pc[p] = "c_images"
    /\ \E ok \in BOOLEAN :
          LET found == ExitOk(ok) /\ cmd[p].version \in images IN
          /\ Log(p, Call("images", EmptyName, <<>>,
                         IF ~ExitOk(ok) THEN "fail" ELSE IF found THEN "found" ELSE "empty"))
          /\ IF found THEN Goto(p, "c_run") ELSE Goto(p, "c_pull")
    /\ UNCHANGED <<front, envMap, lastEvent, containers, images, busy, dockerInstalled, cmd, cfgPort,
                   exists, running, attempts, probes, summary>>

\* a pull whose failure does not abort the steps
CreatePull_continue(p) ==
    /\ pc[p] = "c_pull"
    /\ \E ok \in BOOLEAN :
          /\ Log(p, Call("pull", EmptyName, <<>>, IF ExitOk(ok) THEN "ok" ELSE "fail"))
          /\ images' = IF ExitOk(ok) THEN images \cup {cmd[p].version} ELSE images
          /\ Goto(p, "c_run")
    /\ UNCHANGED <<front, envMap, lastEvent, containers, busy, dockerInstalled, cmd, cfgPort, exists,
                   running, attempts, probes, summary>>

CreatePull(p) ==
    /\ pc[p] = "c_pull"
    /\ \E ok \in BOOLEAN :
          /\ Log(p, Call("pull", EmptyName, <<>>, IF ExitOk(ok) THEN "ok" ELSE "fail"))
          /\ IF ExitOk(ok)
             THEN /\ images' = images \cup {cmd[p].version}
                  /\ Goto(p, "c_run")
             ELSE /\ UNCHANGED images
                  /\ Return(p, "PullFailed")
    /\ UNCHANGED <<front, envMap, lastEvent, containers, busy, dockerInstalled, cmd, cfgPort, exists,
                   running, attempts, probes, summary>>

\* what docker run does to the engine: nothing when the subprocess cannot
\* reach the engine or the name is taken; a created, not started container
\* when the host port cannot be bound; a running container otherwise
NewContainer(c, port, r) ==
    [name |-> c.name, running |-> r, port |-> port, version |-> c.version,
     env |-> ContainerEnv(ConfigOf(c, port))]

RunOutcome(cs, b, c, port, ok) ==
    IF ~ok \/ HasContainer(cs, c.name) THEN [ok |-> FALSE, cs |-> cs]
    ELSE IF Occupied(cs, b, port) THEN [ok |-> FALSE, cs |-> <<NewContainer(c, port, FALSE)>> \o cs]
    ELSE [ok |-> TRUE, cs |-> <<NewContainer(c, port, TRUE)>> \o cs]

\* a create that probes for a port again when docker run failed
CreateRun_reprobe(p) ==
    /\ pc[p] = "c_run"
    /\ \E ok \in BOOLEAN :
          LET o == RunOutcome(containers, busy, cmd[p], cfgPort[p], ExitOk(ok)) IN
          /\ Log(p, Call("run", cmd[p].name, buildDockerArgs(ConfigOf(cmd[p], cfgPort[p])),
                         IF o.ok THEN "ok" ELSE "fail"))
          /\ containers' = o.cs
          /\ IF o.cs # containers THEN Note(cmd[p].name, "created") ELSE UNCHANGED lastEvent
          /\ IF o.ok THEN Goto(p, "c_wait") ELSE Goto(p, "c_port")
    /\ UNCHANGED <<front, envMap, images, busy, dockerInstalled, cmd, cfgPort, exists,
                   running, attempts, probes, summary>>

\* a create that goes on to the readiness probes whatever docker run exited with
CreateRun_failureIgnored(p) ==
    /\ pc[p] = "c_run"
    /\ \E ok \in BOOLEAN :
          LET o == RunOutcome(containers, busy, cmd[p], cfgPort[p], ExitOk(ok)) IN
          /\ Log(p, Call("run", cmd[p].name, buildDockerArgs(ConfigOf(cmd[p], cfgPort[p])),
                         IF o.ok THEN "ok" ELSE "fail"))
          /\ containers' = o.cs
          /\ IF o.cs # containers THEN Note(cmd[p].name, "created") ELSE UNCHANGED lastEvent
          /\ Goto(p, "c_wait")
    /\ UNCHANGED <<front, envMap, images, busy, dockerInstalled, cmd, cfgPort, exists,
                   running, attempts, probes, summary>>

\* step "Creating container": docker run with the arguments of buildDockerArgs
CreateRun(p) ==
    /\ pc[p] = "c_run"
    /\ \E ok \in BOOLEAN :
          LET o == RunOutcome(containers, busy, cmd[p], cfgPort[p], ExitOk(ok)) IN
          /\ Log(p, Call("run", cmd[p].name, buildDockerArgs(ConfigOf(cmd[p], cfgPort[p])),
                         IF o.ok THEN "ok" ELSE "fail"))
          /\ containers' = o.cs
          /\ IF o.cs # containers THEN Note(cmd[p].name, "created") ELSE UNCHANGED lastEvent
          /\ IF o.ok THEN Goto(p, "c_wait") ELSE Return(p, "RunFailed")
    /\ UNCHANGED <<front, envMap, images, busy, dockerInstalled, cmd, cfgPort, exists,
                   running, attempts, probes, summary>>

\* the loop condition of waitForPostgres
MoreAttempts_offByOne(i) == i <= maxAttempts

MoreAttempts(i) == i < maxAttempts

\* a readiness timeout that removes the container it waited for
waitForPostgres_rollback(p) ==
    /\ pc[p] = "c_wait"
    /\ MoreAttempts(attempts[p])
    /\ \E ready \in BOOLEAN :
          LET ok == ExitOk(ready) /\ IsRunning(containers, cmd[p].name) IN
          /\ Log(p, Call("exec", cmd[p].name, <<>>, IF ok THEN "ok" ELSE "fail"))
          /\ IF ok
             THEN Goto(p, "c_print") /\ UNCHANGED <<attempts, containers, lastEvent>>
             ELSE /\ attempts' = [attempts EXCEPT ![p] = @ + 1]
                  /\ IF MoreAttempts(attempts[p] + 1)
                     THEN Goto(p, "c_wait") /\ UNCHANGED <<containers, lastEvent>>
                     ELSE /\ Return(p, "ReadinessTimeout")
                          /\ Note(cmd[p].name, "timeout")
                          /\ containers' = Without(containers, cmd[p].name)
    /\ UNCHANGED <<front, envMap, images, busy, dockerInstalled, cmd, cfgPort,
                   exists, running, probes, summary>>

\* step "Waiting for container to be ready": one iteration of the loop of
\* waitForPostgres (probe, then sleep); leaving the loop after the last
\* failed probe is the timeout error
waitForPostgres(p) ==
    /\ pc[p] = "c_wait"
    /\ MoreAttempts(attempts[p])
    /\ \E ready \in BOOLEAN :
          LET ok == ExitOk(ready) /\ IsRunning(containers, cmd[p].name) IN
          /\ Log(p, Call("exec", cmd[p].name, <<>>, IF ok THEN "ok" ELSE "fail"))
          /\ IF ok
             THEN Goto(p, "c_print") /\ UNCHANGED <<attempts, lastEvent>>
             ELSE /\ attempts' = [attempts EXCEPT ![p] = @ + 1]
                  /\ IF MoreAttempts(attempts[p] + 1)
                     THEN Goto(p, "c_wait") /\ UNCHANGED lastEvent
                     ELSE Return(p, "ReadinessTimeout") /\ Note(cmd[p].name, "timeout")
    /\ UNCHANGED <<front, envMap, containers, images, busy, dockerInstalled, cmd, cfgPort,
                   exists, running, probes, summary>>

\* what printConnectionDetails prints of a configuration whose port is the
\* number port: the host is the outbound address or, failing that, localhost
printConnectionDetails(cfg, port, ipOk) ==
    [shown |-> TRUE, host |-> IF ipOk THEN "ip" ELSE "localhost",
     port |-> port, uriPort |-> port, name |-> cfg.name,
     user |-> cfg.username, password |-> cfg.password, database |-> cfg.database,
     rows |-> <<>>]

\* a summary printed from the configuration as the caller passed it
CreateFinish_requestedPort(p) ==
    /\ pc[p] = "c_print"
    /\ \E ipOk \in BOOLEAN :
          summary' = [summary EXCEPT ![p] =
                         printConnectionDetails(ConfigOf(cmd[p], cmd[p].port), cmd[p].port, ipOk)]
    /\ Return(p, "ok")
    /\ UNCHANGED <<front, envMap, lastEvent, containers, images, busy, dockerInstalled, cmd, cfgPort,
                   exists, running, attempts, probes, calls>>

\* printConnectionDetails and the nil return
CreateFinish(p) ==
    /\ pc[p] = "c_print"
    /\ \E ipOk \in BOOLEAN :
          summary' = [summary EXCEPT ![p] =
                         printConnectionDetails(ConfigOf(cmd[p], cfgPort[p]), cfgPort[p], ipOk)]
    /\ Return(p, "ok")
    /\ UNCHANGED <<front, envMap, lastEvent, containers, images, busy, dockerInstalled, cmd, cfgPort,
                   exists, running, attempts, probes, calls>>

(***************************************************************************)
(* Start, Stop, Remove.                                                    *)
(***************************************************************************)
StartCheck(p) ==
    /\ pc[p] = "start_check"
    /\ \E ok \in BOOLEAN :
          LET r == containerExists(containers, cmd[p].name, ExitOk(ok)) IN
          /\ Log(p, Call("ps", cmd[p].name, <<>>, PsRes(containers, cmd[p].name, ExitOk(ok))))
          /\ exists' = [exists EXCEPT ![p] = r[1]]
          /\ running' = [running EXCEPT ![p] = r[2]]
          /\ IF ~r[1] THEN Return(p, "NotFound")
             ELSE IF r[2] THEN Return(p, "AlreadyRunning")
             ELSE Goto(p, "start_invoke")
    /\ UNCHANGED <<front, envMap, lastEvent, containers, images, busy, dockerInstalled, cmd, cfgPort,
                   attempts, probes, summary>>

\* docker start: fails on an unknown name and when the published port cannot
\* be bound; a running container stays as it is
StartOutcome(cs, b, name, ok) ==
    IF ~ok \/ ~HasContainer(cs, name) THEN [ok |-> FALSE, cs |-> cs]
    ELSE IF IsRunning(cs, name) THEN [ok |-> TRUE, cs |-> cs]
    ELSE IF \E i \in 1..Len(cs) : cs[i].name = name /\ cs[i].port # 0
                                   /\ Occupied(cs, b, cs[i].port)
         THEN [ok |-> FALSE, cs |-> cs]
    ELSE [ok |-> TRUE, cs |-> SetRunning(cs, name, TRUE)]

StartInvoke(p) ==
    /\ pc[p] = "start_invoke"
    /\ \E ok \in BOOLEAN :
          LET o == StartOutcome(containers, busy, cmd[p].name, ExitOk(ok)) IN
          /\ Log(p, Call("start", cmd[p].name, <<>>, IF o.ok THEN "ok" ELSE "fail"))
          /\ containers' = o.cs
          /\ IF o.ok THEN Return(p, "ok") ELSE Return(p, "StartFailed")
    /\ UNCHANGED <<front, envMap, lastEvent, images, busy, dockerInstalled, cmd, cfgPort, exists,
                   running, attempts, probes, summary>>

StopCheck(p) ==
    /\ pc[p] = "stop_check"
    /\ \E ok \in BOOLEAN :
          LET r == containerExists(containers, cmd[p].name, ExitOk(ok)) IN
          /\ Log(p, Call("ps", cmd[p].name, <<>>, PsRes(containers, cmd[p].name, ExitOk(ok))))
          /\ exists' = [exists EXCEPT ![p] = r[1]]
          /\ running' = [running EXCEPT ![p] = r[2]]
          /\ IF ~r[1] THEN Return(p, "NotFound")
             ELSE IF ~r[2] THEN Return(p, "AlreadyStopped")
             ELSE Goto(p, "stop_invoke")
    /\ UNCHANGED <<front, envMap, lastEvent, containers, images, busy, dockerInstalled, cmd, cfgPort,
                   attempts, probes, summary>>

\* docker stop: fails on an unknown name; a stopped container stays stopped
StopOutcome(cs, name, ok) ==
    IF ~ok \/ ~HasContainer(cs, name) THEN [ok |-> FALSE, cs |-> cs]
    ELSE [ok |-> TRUE, cs |-> SetRunning(cs, name, FALSE)]

StopInvoke(p) ==
    /\ pc[p] = "stop_invoke"
    /\ \E ok \in BOOLEAN :
          LET o == StopOutcome(containers, cmd[p].name, ExitOk(ok)) IN
          /\ Log(p, Call("stop", cmd[p].name, <<>>, IF o.ok THEN "ok" ELSE "fail"))
          /\ containers' = o.cs
          /\ IF o.ok THEN Return(p, "ok") ELSE Return(p, "StopFailed")
    /\ UNCHANGED <<front, envMap, lastEvent, images, busy, dockerInstalled, cmd, cfgPort, exists,
                   running, attempts, probes, summary>>

RemoveCheck(p) ==
    /\ pc[p] = "rm_check"
    /\ \E ok \in BOOLEAN :
          LET r == containerExists(containers, cmd[p].name, ExitOk(ok)) IN
          /\ Log(p, Call("ps", cmd[p].name, <<>>, PsRes(containers, cmd[p].name, ExitOk(ok))))
          /\ exists' = [exists EXCEPT ![p] = r[1]]
          /\ running' = [running EXCEPT ![p] = r[2]]
          /\ IF ~r[1] THEN Return(p, "NotFound") ELSE Goto(p, "rm_invoke")
    /\ UNCHANGED <<front, envMap, lastEvent, containers, images, busy, dockerInstalled, cmd, cfgPort,
                   attempts, probes, summary>>

RemoveArgs_alwaysForce(name, force) == <<WRm, WForce, name>>

\* the argument list Remove hands to exec.Command
RemoveArgs(name, force) ==
    (IF force THEN <<WRm, WForce>> ELSE <<WRm>>) \o <<name>>

\* docker rm: fails on an unknown name, and on a running container unless
\* -f is among the arguments
RmOutcome(cs, args, ok) ==
    LET name == args[Len(args)]
        forced == \E i \in 1..Len(args) : args[i] = WForce IN
    IF ~ok \/ ~HasContainer(cs, name) THEN [ok |-> FALSE, cs |-> cs]
    ELSE IF IsRunning(cs, name) /\ ~forced THEN [ok |-> FALSE, cs |-> cs]
    ELSE [ok |-> TRUE, cs |-> Without(cs, name)]

\* a Remove that returns nil whatever docker rm exited with
RemoveInvoke_errorIgnored(p) ==
    /\ pc[p] = "rm_invoke"
    /\ \E ok \in BOOLEAN :
          LET args == RemoveArgs(cmd[p].name, cmd[p].force)
              o == RmOutcome(containers, args, ExitOk(ok)) IN
          /\ Log(p, Call("rm", cmd[p].name, args, IF o.ok THEN "ok" ELSE "fail"))
          /\ containers' = o.cs
          /\ Return(p, "ok")
          /\ IF o.ok THEN Note(cmd[p].name, "removed") ELSE UNCHANGED lastEvent
    /\ UNCHANGED <<front, envMap, images, busy, dockerInstalled, cmd, cfgPort, exists,
                   running, attempts, probes, summary>>

RemoveInvoke(p) ==
    /\ pc[p] = "rm_invoke"
    /\ \E ok \in BOOLEAN :
          LET args == RemoveArgs(cmd[p].name, cmd[p].force)
              o == RmOutcome(containers, args, ExitOk(ok)) IN
          /\ Log(p, Call("rm", cmd[p].name, args, IF o.ok THEN "ok" ELSE "fail"))
          /\ containers' = o.cs
          /\ IF o.ok THEN Return(p, "ok") /\ Note(cmd[p].name, "removed")
             ELSE Return(p, "RemoveFailed") /\ UNCHANGED lastEvent
    /\ UNCHANGED <<front, envMap, images, busy, dockerInstalled, cmd, cfgPort, exists,
                   running, attempts, probes, summary>>

(***************************************************************************)
(* List.                                                                   *)
(***************************************************************************)
WAncestorVersion == <<"ancestor=postgres:", "15">>
WAncestorFamily == <<"ancestor=postgres">>
NoLatest == "none"

\* docker ps -a --filter ancestor=postgres:<version>: one line per container
\* created from that image, newest first; the printed line holds the name,
\* the status and the published port (none unless the container runs)
RECURSIVE AncestorRows(_, _)
AncestorRows(cs, version) ==
    IF cs = <<>> THEN <<>>
    ELSE IF Head(cs).version = version
         THEN <<[name |-> Head(cs).name, up |-> Head(cs).running,
                 port |-> IF Head(cs).running THEN Head(cs).port ELSE 0]>>
              \o AncestorRows(Tail(cs), version)
         ELSE AncestorRows(Tail(cs), version)

\* len(output) == 0
NothingListed_always(out) == TRUE

NothingListed(out) == out = <<>>

\* the query with the filter ancestor=postgres:15
ListVersion(p) ==
    /\ pc[p] = "list_version"
    /\ \E ok \in BOOLEAN :
          LET out == AncestorRows(containers, "15") IN
          /\ Log(p, Call("ps_version", EmptyName, <<WAncestorVersion>>,
                         IF ~ExitOk(ok) THEN "fail" ELSE IF out = <<>> THEN "empty" ELSE "found"))
          /\ IF ~ExitOk(ok) THEN Return(p, "ListFailed") /\ UNCHANGED summary
             ELSE IF NothingListed(out) THEN Goto(p, "list_family") /\ UNCHANGED summary
             ELSE /\ summary' = [summary EXCEPT ![p] = [NoSummary EXCEPT !.rows = out]]
                  /\ Return(p, "ok")
    /\ UNCHANGED <<front, envMap, lastEvent, containers, images, busy, dockerInstalled, cmd, cfgPort,
                   exists, running, attempts, probes>>

\* the query with the filter ancestor=postgres, an image reference without
\* tag: the engine resolves it to the image tagged latest, which is the
\* image of one of the versions or is not in the local cache
ListFamily(p) ==
    /\ pc[p] = "list_family"
    /\ \E ok \in BOOLEAN, latest \in Versions \cup {NoLatest} :
          LET out == IF latest = NoLatest THEN <<>> ELSE AncestorRows(containers, latest) IN
          /\ Log(p, Call("ps_family", EmptyName, <<WAncestorFamily>>,
                         IF ~ExitOk(ok) THEN "fail" ELSE IF out = <<>> THEN "empty" ELSE "found"))
          /\ IF ~ExitOk(ok) THEN Return(p, "ListFailed") /\ UNCHANGED summary
             ELSE /\ summary' = [summary EXCEPT ![p] = [NoSummary EXCEPT !.rows = out]]
                  /\ Return(p, "ok")
    /\ UNCHANGED <<front, envMap, lastEvent, containers, images, busy, dockerInstalled, cmd, cfgPort,
                   exists, running, attempts, probes>>

(***************************************************************************)
(* ShowConnectionDetails.                                                  *)
(***************************************************************************)
WUserKey == <<"POSTGRES_USER">>
WPasswordKey == <<"POSTGRES_PASSWORD">>
WDbKey == <<"POSTGRES_DB">>

\* the pieces of text that hold a "=", which is their last character
HasEq(piece) ==
    piece \in {"POSTGRES_PASSWORD=", "POSTGRES_USER=", "POSTGRES_DB=", "TZ=", "LANG=", "PATH="}

\* such a piece without its "="
KeyPart(piece) ==
    CASE piece = "POSTGRES_PASSWORD=" -> "POSTGRES_PASSWORD"
      [] piece = "POSTGRES_USER=" -> "POSTGRES_USER"
      [] piece = "POSTGRES_DB=" -> "POSTGRES_DB"
      [] piece = "TZ=" -> "TZ"
      [] piece = "LANG=" -> "LANG"
      [] piece = "PATH=" -> "PATH"

RECURSIVE FirstEq(_, _)
FirstEq(line, i) ==
    IF i > Len(line) THEN 0 ELSE IF HasEq(line[i]) THEN i ELSE FirstEq(line, i + 1)

\* strings.SplitN(line, "=", 2), for a line that holds a "="
SplitN2(line) ==
    LET i == FirstEq(line, 1) IN
    [k |-> SubSeq(line, 1, i - 1) \o <<KeyPart(line[i])>>, v |-> SubSeq(line, i + 1, Len(line))]

\* the loop over the lines of the first inspect: env[parts[0]] = parts[1]
\* for every line that splits in two
RECURSIVE ParseEnv(_)
ParseEnv(lines) ==
    IF lines = <<>> THEN <<>>
    ELSE IF FirstEq(Head(lines), 1) = 0 THEN ParseEnv(Tail(lines))
    ELSE <<SplitN2(Head(lines))>> \o ParseEnv(Tail(lines))

\* env[key]: the value put last under the key, "" when there is none
RECURSIVE Lookup(_, _)
Lookup(m, key) ==
    IF m = <<>> THEN EmptyWord
    ELSE IF m[Len(m)].k = key THEN m[Len(m)].v
    ELSE Lookup(SubSeq(m, 1, Len(m) - 1), key)

\* strings.TrimPrefix
TrimPrefix(w, prefix) == IF w # <<>> /\ w[1] = prefix THEN Tail(w) ELSE w

\* the temporary config of ShowConnectionDetails and its two defaults
ShownConfig(name, m) ==
    LET user0 == TrimPrefix(Lookup(m, WUserKey), "POSTGRES_USER=")
        db0   == TrimPrefix(Lookup(m, WDbKey), "POSTGRES_DB=")
        user  == IF user0 = EmptyWord THEN <<"postgres">> ELSE user0
    IN  [name |-> name, username |-> user,
         password |-> TrimPrefix(Lookup(m, WPasswordKey), "POSTGRES_PASSWORD="),
         database |-> IF db0 = EmptyWord THEN user ELSE db0]

\* docker inspect <name>: fails on an unknown name
InspectOutcome(cs, name, ok) ==
    IF ~ok \/ ~HasContainer(cs, name) THEN [ok |-> FALSE, env |-> <<>>, port |-> 0]
    ELSE LET c == cs[CHOOSE i \in 1..Len(cs) : cs[i].name = name] IN
         \* NetworkSettings.Ports holds the mapping of a running container only
         [ok |-> TRUE, env |-> c.env, port |-> IF c.running THEN c.port ELSE 0]

ShowCheck(p) ==
    /\ pc[p] = "show_check"
    /\ \E ok \in BOOLEAN :
          LET r == containerExists(containers, cmd[p].name, ExitOk(ok)) IN
          /\ Log(p, Call("ps", cmd[p].name, <<>>, PsRes(containers, cmd[p].name, ExitOk(ok))))
          /\ exists' = [exists EXCEPT ![p] = r[1]]
          /\ running' = [running EXCEPT ![p] = r[2]]
          /\ IF ~r[1] THEN Return(p, "NotFound") ELSE Goto(p, "show_env")
    /\ UNCHANGED <<front, envMap, lastEvent, containers, images, busy, dockerInstalled,
                   cmd, cfgPort, attempts, probes, summary>>

\* the inspect of .Config.Env and the parse of its output
ShowEnv(p) ==
    /\ pc[p] = "show_env"
    /\ \E ok \in BOOLEAN :
          LET o == InspectOutcome(containers, cmd[p].name, ExitOk(ok)) IN
          /\ Log(p, Call("inspect_env", cmd[p].name, <<>>, IF o.ok THEN "ok" ELSE "fail"))
          /\ IF o.ok
             THEN /\ envMap' = [envMap EXCEPT ![p] = ParseEnv(o.env)]
                  /\ Goto(p, "show_port")
             ELSE /\ UNCHANGED envMap
                  /\ Return(p, "InspectFailed")
    /\ UNCHANGED <<front, lastEvent, containers, images, busy, dockerInstalled, cmd,
                   cfgPort, exists, running, attempts, probes, summary>>

\* the inspect of the port mapping, the temporary config and its print
ShowPort(p) ==
    /\ pc[p] = "show_port"
    /\ \E ok \in BOOLEAN, ipOk \in BOOLEAN :
          LET o == InspectOutcome(containers, cmd[p].name, ExitOk(ok)) IN
          /\ Log(p, Call("inspect_port", cmd[p].name, <<>>, IF o.ok THEN "ok" ELSE "fail"))
          /\ IF o.ok
             THEN /\ summary' = [summary EXCEPT ![p] =
                        printConnectionDetails(ShownConfig(cmd[p].name, envMap[p]), o.port, ipOk)]
                  /\ Return(p, "ok")
             ELSE /\ UNCHANGED summary
                  /\ Return(p, "PortFailed")
    /\ UNCHANGED <<front, envMap, lastEvent, containers, images, busy, dockerInstalled,
                   cmd, cfgPort, exists, running, attempts, probes>>

(***************************************************************************)
(* One command at a time: the CLI runs a single process (Spec).            *)
(***************************************************************************)
Step(p) ==
    \/ Begin(p)
    \/ CreateEnter(p)
    \/ CreateCheckExists(p)
    \/ CreateFindPort(p)
    \/ CreateImages(p)
    \/ CreatePull(p)
    \/ CreateRun(p)
    \/ waitForPostgres(p)
    \/ CreateFinish(p)
    \/ StartCheck(p)
    \/ StartInvoke(p)
    \/ StopCheck(p)
    \/ StopInvoke(p)
    \/ RemoveCheck(p)
    \/ RemoveInvoke(p)
    \/ ListVersion(p)
    \/ ListFamily(p)

Next == \E p \in SeqProcs : Step(p)

Spec == Init /\ [][Next]_vars

TypeOK ==
    /\ \A i \in 1..Len(containers) : containers[i].name \in Names
    /\ \A p \in Procs : attempts[p] \in 0..(maxAttempts + 1)

(***************************************************************************)
(* Observations on the subprocesses of one invocation.                     *)
(***************************************************************************)
OpsAt(p, op) == {i \in 1..Len(calls[p]) : calls[p][i].op = op}
OpsWith(p, op, res) == {i \in OpsAt(p, op) : calls[p][i].res = res}
Returned(p, kind) == pc[p] = "done" /\ cmd[p].kind = kind
LastCall(cs) == cs[Len(cs)]

\* C1: in create, every docker run is preceded, in the same invocation, by a
\* status query for the same name that reported no container of that name.
C1_RunOnlyAfterAbsenceReported ==
    \A p \in Procs : \A i \in OpsAt(p, "run") :
        \E j \in 1..(i - 1) :
            /\ calls[p][j].op = "ps"
            /\ calls[p][j].name = calls[p][i].name
            /\ calls[p][j].res = "empty"

\* C2: when a container named config.name exists, the existence check of
\* create ends the invocation with AlreadyExists: no port probe, no pull, no
\* run, no readiness probe, and the engine's containers are unchanged.
C2_ExistingNameRejected ==
    [][\A p \in Procs :
          (/\ pc[p] = "c_exists"
           /\ pc'[p] # "c_exists"
           /\ HasContainer(containers, cmd[p].name))
          => /\ pc'[p] = "done"
             /\ result'[p] = "AlreadyExists"
             /\ probes'[p] = 0
             /\ \A i \in 1..Len(calls'[p]) : calls'[p][i].op \in {"lookpath", "ps"}
             /\ containers' = containers]_vars

\* C3: a create whose container name is empty returns the validation error
\* and starts no subprocess, looks up no binary and probes no port.
C3_EmptyNameNoEngine ==
    \A p \in Procs :
        (cmd[p].kind = "create" /\ cmd[p].name = EmptyName)
        => /\ pc[p] \in {"c_enter", "done"}
           /\ calls[p] = <<>>
           /\ probes[p] = 0
           /\ (pc[p] = "done" => result[p] = "Validation")

C3_Witness ==
    \E p \in Procs :
        Returned(p, "create") /\ cmd[p].name = EmptyName /\ result[p] = "Validation"

\* C4: start of a container that the status query reports as existing and
\* running returns AlreadyRunning without a docker start, containers unchanged.
C4_StartRunningRejected ==
    [][\A p \in Procs :
          (/\ pc[p] = "start_check"
           /\ pc'[p] # "start_check"
           /\ LastCall(calls'[p]).res = "found"
           /\ IsRunning(containers, cmd[p].name))
          => /\ pc'[p] = "done"
             /\ result'[p] = "AlreadyRunning"
             /\ containers' = containers]_vars

\* C5: stop of a container that the status query reports as existing and not
\* running returns AlreadyStopped without a docker stop, containers unchanged.
C5_StopStoppedRejected ==
    [][\A p \in Procs :
          (/\ pc[p] = "stop_check"
           /\ pc'[p] # "stop_check"
           /\ LastCall(calls'[p]).res = "found"
           /\ HasContainer(containers, cmd[p].name)
           /\ ~IsRunning(containers, cmd[p].name))
          => /\ pc'[p] = "done"
             /\ result'[p] = "AlreadyStopped"
             /\ containers' = containers]_vars

\* C6: start, stop and remove return NotFound without a start, stop or rm
\* subprocess when no container has the given name; no invocation starts
\* more than one of them.
C6_NotFoundWhenAbsent ==
    /\ [][\A p \in Procs :
             (/\ pc[p] \in {"start_check", "stop_check", "rm_check"}
              /\ pc'[p] # pc[p]
              /\ ~HasContainer(containers, cmd[p].name))
             => /\ pc'[p] = "done"
                /\ result'[p] = "NotFound"]_vars
    /\ [](\A p \in Procs :
             Cardinality(OpsAt(p, "start") \cup OpsAt(p, "stop") \cup OpsAt(p, "rm")) <= 1)

\* C7: the rm subprocess gets -f exactly when force is true; without force
\* its arguments are the verb and the name only, also for a running container.
C7_ForceFlagIffForce ==
    \A p \in Procs : \A i \in OpsAt(p, "rm") :
        /\ (\E k \in 1..Len(calls[p][i].args) : calls[p][i].args[k] = WForce) <=> cmd[p].force
        /\ ~cmd[p].force => calls[p][i].args = <<WRm, cmd[p].name>>
        /\ cmd[p].force => calls[p][i].args = <<WRm, WForce, cmd[p].name>>

C7_Witness ==
    \E p \in Procs :
        /\ Returned(p, "remove")
        /\ ~cmd[p].force
        /\ IsRunning(containers, cmd[p].name)
        /\ OpsWith(p, "rm", "fail") # {}

\* C8: the readiness probes of one create: never more than 10, none after a
\* successful one, success returned after the first successful one, and
\* ReadinessTimeout returned after exactly 10 failed ones.
C8_ReadinessBounded ==
    \A p \in Procs :
        /\ Cardinality(OpsAt(p, "exec")) <= maxAttempts
        /\ \A i \in OpsWith(p, "exec", "ok") : i = Len(calls[p])
        /\ (OpsWith(p, "exec", "ok") # {} /\ pc[p] = "done") => result[p] = "ok"
        /\ (OpsWith(p, "exec", "ok") # {}) => pc[p] \in {"c_print", "done"}
        /\ result[p] = "ReadinessTimeout"
           => /\ Cardinality(OpsWith(p, "exec", "fail")) = maxAttempts
              /\ OpsWith(p, "exec", "ok") = {}
        /\ (Cardinality(OpsWith(p, "exec", "fail")) = maxAttempts)
           => (pc[p] = "done" /\ result[p] = "ReadinessTimeout")

C8_Witness ==
    \E p \in Procs :
        /\ Returned(p, "create")
        /\ result[p] = "ok"
        /\ Cardinality(OpsWith(p, "exec", "fail")) = maxAttempts - 1
        /\ OpsWith(p, "exec", "ok") # {}

\* C9: a create that returns ReadinessTimeout has started no stop and no rm,
\* and the container its run created is still in the engine.
C9_TimeoutLeavesContainer ==
    \A p \in Procs :
        (Returned(p, "create") /\ result[p] = "ReadinessTimeout")
        => /\ OpsWith(p, "run", "ok") # {}
           /\ OpsAt(p, "stop") = {}
           /\ OpsAt(p, "rm") = {}
           /\ HasContainer(containers, cmd[p].name)

C9_Witness ==
    \E p \in Procs :
        /\ Returned(p, "create")
        /\ result[p] = "ReadinessTimeout"
        /\ IsRunning(containers, cmd[p].name)

\* C10: create runs pull, run, readiness in this order and stops at the
\* first failure; the connection summary is printed only after all three.
PullStepOk(p, i) ==
    \E j \in 1..(i - 1) :
        \/ calls[p][j].op = "images" /\ calls[p][j].res = "found"
        \/ calls[p][j].op = "pull" /\ calls[p][j].res = "ok"

C10_StepsInOrder ==
    \A p \in Procs :
        /\ \A i \in OpsAt(p, "pull") : \E j \in 1..(i - 1) : calls[p][j].op = "images"
        /\ \A i \in OpsAt(p, "run") : PullStepOk(p, i)
        /\ \A i \in OpsAt(p, "exec") :
              \E j \in OpsWith(p, "run", "ok") : j < i /\ PullStepOk(p, j)
        /\ \A i \in OpsWith(p, "pull", "fail") \cup OpsWith(p, "run", "fail") :
              i = Len(calls[p]) /\ pc[p] = "done" /\ result[p] # "ok"
        /\ (OpsWith(p, "pull", "fail") # {}) => (OpsAt(p, "run") = {} /\ OpsAt(p, "exec") = {})
        /\ (OpsWith(p, "run", "fail") # {}) => OpsAt(p, "exec") = {}
        /\ summary[p].shown
           => /\ result[p] = "ok"
              /\ \E i \in OpsWith(p, "exec", "ok") :
                    \E j \in OpsWith(p, "run", "ok") : j < i /\ PullStepOk(p, j)

C10_Witness ==
    \E p \in Procs :
        /\ Returned(p, "create")
        /\ summary[p].shown
        /\ OpsWith(p, "pull", "ok") # {}

\* C11: with the default port configured, the port create goes on with is
\* the lowest port of 5432..5531 that is free at probe time: it is not
\* occupied and every port of the window below it is.
C11_LowestFreePort ==
    \A p \in Procs :
        (pc[p] = "c_images" /\ cmd[p].port = defaultPort)
        => /\ cfgPort[p] \in 5432..5531
           /\ ~Occupied(containers, busy, cfgPort[p])
           /\ \A q \in 5432..(cfgPort[p] - 1) : Occupied(containers, busy, q)

C11_Witness ==
    \E p \in Procs :
        /\ pc[p] = "c_images"
        /\ cmd[p].port = defaultPort
        /\ cfgPort[p] = 5433
        /\ Occupied(containers, busy, 5432)

\* C12: with the default port configured and all 100 ports of 5432..5531
\* occupied, the probe step ends create with NoAvailablePort after at most
\* 100 bind attempts and without an images, pull or run subprocess.
C12_WindowExhausted ==
    [][\A p \in Procs :
          (/\ pc[p] = "c_port"
           /\ pc'[p] # "c_port"
           /\ cmd[p].port = defaultPort
           /\ \A q \in 5432..5531 : Occupied(containers, busy, q))
          => /\ pc'[p] = "done"
             /\ result'[p] = "NoAvailablePort"
             /\ probes'[p] <= 100
             /\ \A i \in 1..Len(calls'[p]) : calls'[p][i].op \in {"lookpath", "ps"}
             /\ containers' = containers]_vars

C12_Witness ==
    \E p \in Procs :
        /\ Returned(p, "create")
        /\ result[p] = "NoAvailablePort"
        /\ probes[p] = 100
        /\ ~Occupied(containers, busy, 5532)

\* C13: create changes nothing of its configuration but the port, and the
\* port only in the probe step when the default port is occupied: another
\* configured port is never probed and reaches docker run as it was given,
\* and a free 5432 stays 5432.
PublishedAs(args, port) ==
    \E k \in 1..(Len(args) - 1) :
        args[k] = WPublish /\ args[k + 1] = Itoa(port) \o <<":5432">>

C13_OnlyPortRewritten ==
    /\ [](\A p \in Procs :
             cmd[p].kind = "create"
             => /\ cmd[p].port # defaultPort
                   => /\ probes[p] = 0
                      /\ cfgPort[p] = cmd[p].port
                      /\ \A i \in OpsAt(p, "run") : PublishedAs(calls[p][i].args, cmd[p].port)
                /\ (/\ cmd[p].port = defaultPort
                    /\ pc[p] = "c_images"
                    /\ ~Occupied(containers, busy, defaultPort))
                   => cfgPort[p] = defaultPort)
    /\ [][\A p \in Procs :
             (cmd[p].kind = "create" /\ pc[p] \notin {"idle", "done"})
             => /\ cmd'[p] = cmd[p]
                /\ cfgPort'[p] # cfgPort[p]
                   => /\ pc[p] = "c_port"
                      /\ cmd[p].port = defaultPort
                      /\ Occupied(containers, busy, defaultPort)]_vars

C13_Witness ==
    \E p \in Procs :
        /\ Returned(p, "create")
        /\ cmd[p].port = CustomPort
        /\ Occupied(containers, busy, defaultPort)
        /\ \E i \in OpsAt(p, "run") : PublishedAs(calls[p][i].args, CustomPort)

(***************************************************************************)
(* buildDockerArgs on its own: the configuration is drawn from the         *)
(* configurations below and the argument list is built from it (SpecArgs). *)
(***************************************************************************)
MaxScripts == 11

ScriptName(k) == <<"s">> \o Itoa(k) \o <<".sql">>

\* n scripts, named in ascending or in descending order
ScriptList(n, asc) ==
    [i \in 1..n |-> IF asc THEN ScriptName(i) ELSE ScriptName(n + 1 - i)]

ArgConfigs ==
    {[DefaultConfig(NameDb) EXCEPT
         !.initScripts = ScriptList(n, asc), !.sslMode = m, !.sslCert = c,
         !.sslKey = k, !.sslRootCert = r, !.volume = v, !.extraMounts = x] :
        n \in 0..MaxScripts, asc \in BOOLEAN,
        m \in {SSLDisable, <<"require">>},
        c \in {EmptyWord, <<"/tls/server.crt">>},
        k \in {EmptyWord, <<"/tls/server.key">>},
        r \in {EmptyWord, <<"/tls/root.crt">>},
        v \in {EmptyWord, <<"/srv/pgdata">>},
        x \in {<<>>, <<<<"/srv/extra:/extra">>>>}}

InitArgs ==
    /\ containers = <<>>
    /\ images = {}
    /\ busy = {}
    /\ dockerInstalled = TRUE
    /\ pc = [p \in Procs |-> IF p \in SeqProcs THEN "args" ELSE "idle"]
    /\ \E cfg \in ArgConfigs : cmd = [p \in Procs |-> IF p \in SeqProcs THEN cfg ELSE NoCmd]
    /\ cfgPort = [p \in Procs |-> 0]
    /\ exists = [p \in Procs |-> FALSE]
    /\ running = [p \in Procs |-> FALSE]
    /\ attempts = [p \in Procs |-> 0]
    /\ probes = [p \in Procs |-> 0]
    /\ calls = [p \in Procs |-> <<>>]
    /\ result = [p \in Procs |-> "none"]
    /\ summary = [p \in Procs |-> NoSummary]
    /\ envMap = [p \in Procs |-> <<>>]
    /\ argv = [p \in Procs |-> NoArgv]
    /\ exitCode = [p \in Procs |-> NotExited]
    /\ lastEvent = <<>>

BuildArgs(p) ==
    /\ pc[p] = "args"
    /\ calls' = [calls EXCEPT ![p] = <<Call("run", cmd[p].name, buildDockerArgs(cmd[p]), "built")>>]
    /\ pc' = [pc EXCEPT ![p] = "args_done"]
    /\ UNCHANGED <<front, envMap, lastEvent, containers, images, busy, dockerInstalled, cmd, cfgPort,
                   exists, running, attempts, probes, result, summary>>

NextArgs == \E p \in SeqProcs : BuildArgs(p)

SpecArgs == InitArgs /\ [][NextArgs]_vars

\* reading a mount argument back: source ":" target [":ro"]
RECURSIVE FirstColon(_, _)
FirstColon(w, i) ==
    IF i > Len(w) THEN 0 ELSE IF w[i] = ":" THEN i ELSE FirstColon(w, i + 1)

IsRoMount(w) == Len(w) > 2 /\ w[Len(w)] = ":ro" /\ FirstColon(w, 1) > 0
MountSource(w) == SubSeq(w, 1, FirstColon(w, 1) - 1)
MountTarget(w) == SubSeq(w, FirstColon(w, 1) + 1, Len(w) - 1)
RoMounts(args) == SelectSeq(args, IsRoMount)

DigitVal(c) == CHOOSE d \in 0..9 : DigitChar[d + 1] = c

RECURSIVE Atoi(_)
Atoi(ds) ==
    IF Len(ds) = 1 THEN DigitVal(ds[1])
    ELSE 10 * Atoi(SubSeq(ds, 1, Len(ds) - 1)) + DigitVal(ds[Len(ds)])

\* the index carried by a target path <dir>init_<index>.sql
TargetIndex(t) == Atoi(SubSeq(t, 7, Len(t) - 4))

Built(p) == pc[p] = "args_done"
BuiltArgs(p) == calls[p][1].args

\* C14: the argument list has exactly one read-only mount per init script,
\* in list order, each after -v; the script at 0-based position i is mounted
\* at the target carrying index i, and no two targets are equal.
C14_InitMountsIndexed ==
    \A p \in Procs :
        Built(p)
        => LET ms == RoMounts(BuiltArgs(p))
               scripts == cmd[p].initScripts IN
           /\ Len(ms) = Len(scripts)
           /\ \A j \in 1..Len(ms) :
                 /\ MountSource(ms[j]) = scripts[j]
                 /\ TargetIndex(MountTarget(ms[j])) = j - 1
                 /\ MountTarget(ms[j])[1] = InitDir
           /\ \A i, j \in 1..Len(ms) : i # j => MountTarget(ms[i]) # MountTarget(ms[j])
           /\ \A k \in 1..Len(BuiltArgs(p)) :
                 IsRoMount(BuiltArgs(p)[k]) => (k > 1 /\ BuiltArgs(p)[k - 1] = WVolume)

C14_Witness ==
    \E p \in Procs :
        /\ Built(p)
        /\ Len(cmd[p].initScripts) = 2
        /\ cmd[p].initScripts[1] = ScriptName(2)
        /\ Len(RoMounts(BuiltArgs(p))) = 2
        /\ MountSource(RoMounts(BuiltArgs(p))[1]) = ScriptName(2)

\* the byte of a character of a target path (of a piece: its first byte)
CharCode(c) ==
    CASE c = InitDir -> 47
      [] c = "." -> 46
      [] c = "_" -> 95
      [] c = "i" -> 105
      [] c = "l" -> 108
      [] c = "n" -> 110
      [] c = "q" -> 113
      [] c = "s" -> 115
      [] c = "t" -> 116
      [] c \in {DigitChar[d] : d \in 1..10} -> 48 + DigitVal(c)

\* a sorts before b in byte order
RECURSIVE LexLess(_, _)
LexLess(a, b) ==
    IF b = <<>> THEN FALSE
    ELSE IF a = <<>> THEN TRUE
    ELSE IF Head(a) = Head(b) THEN LexLess(Tail(a), Tail(b))
    ELSE CharCode(Head(a)) < CharCode(Head(b))

\* C15: for a list of init scripts of any length, the alphabetical order of
\* the mounted target paths is the order of the list: the target of an
\* earlier script sorts before the target of every later one.
C15_SortedTargetsKeepListOrder ==
    \A p \in Procs :
        Built(p)
        => LET ms == RoMounts(BuiltArgs(p)) IN
           \A i, j \in 1..Len(ms) :
               i < j => LexLess(MountTarget(ms[i]), MountTarget(ms[j]))

\* C16: the certificate mount and the key mount are in the argument list if
\* and only if the SSL mode is not "disable" and both paths are non-empty;
\* the root certificate mount is there only if, besides, its path is
\* non-empty.
HasMount(args, source, target) ==
    \E k \in 2..Len(args) : args[k - 1] = WVolume /\ args[k] = source \o target

HasMountAt(args, target) ==
    \E k \in 2..Len(args) :
        /\ args[k - 1] = WVolume
        /\ Len(args[k]) > 0
        /\ <<args[k][Len(args[k])]>> = target

SSLWanted(cfg) ==
    cfg.sslMode # SSLDisable /\ cfg.sslCert # EmptyWord /\ cfg.sslKey # EmptyWord

C16_SSLMountsIff ==
    \A p \in Procs :
        Built(p)
        => LET args == BuiltArgs(p)
               cfg == cmd[p] IN
           /\ HasMountAt(args, SSLCertTarget) <=> SSLWanted(cfg)
           /\ HasMountAt(args, SSLKeyTarget) <=> SSLWanted(cfg)
           /\ SSLWanted(cfg) => /\ HasMount(args, cfg.sslCert, SSLCertTarget)
                                /\ HasMount(args, cfg.sslKey, SSLKeyTarget)
           /\ HasMountAt(args, SSLRootTarget)
              => /\ SSLWanted(cfg)
                 /\ cfg.sslRootCert # EmptyWord
                 /\ HasMount(args, cfg.sslRootCert, SSLRootTarget)

C16_Witness ==
    \E p \in Procs :
        /\ Built(p)
        /\ SSLWanted(cmd[p])
        /\ HasMountAt(BuiltArgs(p), SSLRootTarget)

EngineOps == {"ps", "images", "pull", "run", "start", "stop", "rm", "ps_version", "ps_family"}

\* C17: a command in which a docker subprocess other than a readiness probe
\* failed returns an error.
C17_FailedInvocationIsReturned ==
    \A p \in Procs :
        (pc[p] = "done"
         /\ \E i \in 1..Len(calls[p]) : calls[p][i].op \in EngineOps /\ calls[p][i].res = "fail")
        => result[p] # "ok"

\* C18 as stated: whenever docker cannot be resolved, create returns
\* EngineNotFound and has started no subprocess.
C18_EngineNotFoundAlways ==
    \A p \in Procs :
        (Returned(p, "create") /\ ~dockerInstalled)
        => /\ result[p] = "EngineNotFound"
           /\ \A i \in 1..Len(calls[p]) : calls[p][i].op \notin EngineOps

\* C18, amended: when docker cannot be resolved, a create with a non-empty
\* container name returns EngineNotFound and a create with an empty name the
\* validation error; neither starts a subprocess nor probes a port.
C18_EngineNotFoundFirst ==
    \A p \in Procs :
        (cmd[p].kind = "create" /\ ~dockerInstalled)
        => /\ pc[p] \in {"c_enter", "done"}
           /\ \A i \in 1..Len(calls[p]) : calls[p][i].op \notin EngineOps
           /\ probes[p] = 0
           /\ pc[p] = "done"
              => result[p] = (IF cmd[p].name = EmptyName THEN "Validation" ELSE "EngineNotFound")

C18_Witness ==
    \E p \in Procs :
        /\ Returned(p, "create")
        /\ ~dockerInstalled
        /\ cmd[p].name # EmptyName
        /\ HasContainer(containers, cmd[p].name)
        /\ result[p] = "EngineNotFound"

\* C19: list returns success with no record when both queries succeed and
\* print nothing, and the family-wide query is made only after the
\* version-qualified query printed nothing.
C19_EmptyListIsSuccess ==
    \A p \in Procs :
        /\ \A i \in OpsAt(p, "ps_family") :
              \E j \in 1..(i - 1) :
                  calls[p][j].op = "ps_version" /\ calls[p][j].res = "empty"
        /\ (/\ Returned(p, "list")
            /\ OpsWith(p, "ps_version", "empty") # {}
            /\ OpsWith(p, "ps_family", "empty") # {})
           => /\ result[p] = "ok"
              /\ summary[p].rows = <<>>

C19_Witness ==
    \E p \in Procs :
        /\ Returned(p, "list")
        /\ OpsWith(p, "ps_version", "empty") # {}
        /\ OpsWith(p, "ps_family", "empty") # {}
        /\ result[p] = "ok"
        /\ containers = <<>>

\* C20: a successful list reports every container of the engine, whatever
\* the image version it was created with.
C20_ListReportsEveryVersion ==
    \A p \in Procs :
        (Returned(p, "list") /\ result[p] = "ok")
        => \A i \in 1..Len(containers) :
               \E k \in 1..Len(summary[p].rows) : summary[p].rows[k].name = containers[i].name

(***************************************************************************)
(* main: the command line front end (SpecCli).  A process is started with  *)
(* a command line, main parses it and either exits at once or runs one     *)
(* operation of the postgres package and exits on its return.              *)
(***************************************************************************)
WProg == <<"go-db">>
WCreate == <<"create">>
WCreateCustom == <<"create-custom">>
WStart == <<"start">>
WStop == <<"stop">>
WRemove == <<"remove">>
WList == <<"list">>
WShow == <<"show">>
WStatus == <<"status">>
WPostgres == <<"postgres">>
WMysql == <<"mysql">>
WFlagPort == <<"--port">>
WFlagForce == <<"--force">>
WFlagBogus == <<"--bogus">>
WFlagHelp == <<"-h">>

\* an argument that starts with "-"
IsFlagWord(w) == w \in {WNameFlag, WFlagPort, WFlagForce, WFlagBogus, WFlagHelp}

\* FlagSet.Parse of the create-custom flags: a defined flag takes the next
\* argument as its value, -h asks for help, any other flag is an error and
\* the first argument that is no flag ends the parse
RECURSIVE ParseCustom(_, _)
ParseCustom(args, f) ==
    IF args = <<>> THEN [err |-> "none", f |-> f]
    ELSE IF Head(args) = WFlagHelp THEN [err |-> "help", f |-> f]
    ELSE IF Head(args) \in {WNameFlag, WFlagPort}
         THEN IF Len(args) < 2 THEN [err |-> "parse", f |-> f]
              ELSE ParseCustom(Tail(Tail(args)),
                               IF Head(args) = WNameFlag THEN [f EXCEPT !.name = args[2]]
                               ELSE [f EXCEPT !.port = args[2]])
    ELSE IF IsFlagWord(Head(args)) THEN [err |-> "parse", f |-> f]
    ELSE [err |-> "none", f |-> f]

\* FlagSet.Parse of the remove flags
RECURSIVE ParseRemove(_, _)
ParseRemove(args, force) ==
    IF args = <<>> THEN [err |-> "none", force |-> force]
    ELSE IF Head(args) = WFlagHelp THEN [err |-> "help", force |-> force]
    ELSE IF Head(args) = WFlagForce THEN ParseRemove(Tail(args), TRUE)
    ELSE IF IsFlagWord(Head(args)) THEN [err |-> "parse", force |-> force]
    ELSE [err |-> "none", force |-> force]

\* flag.ExitOnError: a parse error exits with status 2, a request for help
\* with status 0
ExitOnError(err) == IF err = "help" THEN 0 ELSE 2

Exits(code) == [exit |-> code, cmd |-> NoCmd]
Runs(kind, name, force, port, version, custom) ==
    [exit |-> NotExited,
     cmd |-> [kind |-> kind, name |-> name, force |-> force, port |-> port,
              version |-> version, custom |-> custom]]

\* the switch of main: the exit status when main exits before an operation,
\* else the operation it calls
main(a) ==
    IF Len(a) < 2 THEN Exits(1)
    ELSE LET command == a[2] IN
    CASE command = WCreate ->
            IF Len(a) < 4 THEN Exits(1)
            ELSE IF a[3] = WPostgres
                 THEN Runs("create", a[4], FALSE, defaultPort, defaultPostgresVersion, FALSE)
                 ELSE Exits(1)
      [] command = WCreateCustom ->
            IF Len(a) < 3 THEN Exits(1)
            ELSE IF a[3] = WPostgres
                 THEN LET r == ParseCustom(SubSeq(a, 4, Len(a)), NewPostgresFlags) IN
                      IF r.err # "none" THEN Exits(ExitOnError(r.err))
                      ELSE IF r.f.name = EmptyName THEN Exits(1)
                      ELSE Runs("create", r.f.name, FALSE, Atoi(r.f.port), r.f.version, TRUE)
                 ELSE Exits(1)
      [] command \in {WStart, WStop, WShow} ->
            IF Len(a) < 3 THEN Exits(1)
            ELSE Runs(CASE command = WStart -> "start" [] command = WStop -> "stop"
                        [] command = WShow -> "show",
                      a[3], FALSE, 0, defaultPostgresVersion, FALSE)
      [] command = WRemove ->
            IF Len(a) < 3 THEN Exits(1)
            ELSE LET r == ParseRemove(SubSeq(a, 4, Len(a)), FALSE) IN
                 IF r.err # "none" THEN Exits(ExitOnError(r.err))
                 ELSE Runs("remove", a[3], r.force, 0, defaultPostgresVersion, FALSE)
      [] command = WList -> Runs("list", EmptyName, FALSE, 0, defaultPostgresVersion, FALSE)
      [] OTHER -> Exits(1)

\* the command lines a process is started with
CommandLines ==
    {<<WProg>>, <<WProg, WStatus>>, <<WProg, WList>>,
     <<WProg, WCreate>>, <<WProg, WCreate, WPostgres>>, <<WProg, WCreate, WMysql, NameDb>>,
     <<WProg, WCreateCustom>>, <<WProg, WCreateCustom, WPostgres>>,
     <<WProg, WCreateCustom, WMysql>>,
     <<WProg, WCreateCustom, WPostgres, WFlagBogus>>,
     <<WProg, WCreateCustom, WPostgres, WFlagHelp>>,
     <<WProg, WCreateCustom, WPostgres, WNameFlag>>,
     <<WProg, WCreateCustom, WPostgres, WNameFlag, EmptyName>>,
     <<WProg, WCreateCustom, WPostgres, WNameFlag, NameDb>>,
     <<WProg, WCreateCustom, WPostgres, WNameFlag, NameDb, WFlagPort, Itoa(CustomPort)>>,
     <<WProg, WRemove>>, <<WProg, WRemove, NameDb, WFlagBogus>>}
    \cup {<<WProg, WCreate, WPostgres, n>> : n \in Names}
    \cup {<<WProg, c>> : c \in {WStart, WStop, WShow}}
    \cup {<<WProg, c, n>> : c \in {WStart, WStop, WShow, WRemove}, n \in Names}
    \cup {<<WProg, WRemove, n, WFlagForce>> : n \in Names}

\* main up to the call of the operation, or to its exit when it calls none
Main(p) ==
    /\ pc[p] \in {"idle", "exited"}
    /\ \E a \in CommandLines :
          LET m == main(a) IN
          /\ argv' = [argv EXCEPT ![p] = a]
          /\ cmd' = [cmd EXCEPT ![p] = m.cmd]
          /\ cfgPort' = [cfgPort EXCEPT ![p] = m.cmd.port]
          /\ exitCode' = [exitCode EXCEPT ![p] = m.exit]
          /\ pc' = [pc EXCEPT ![p] = IF m.exit # NotExited THEN "exited"
                                     ELSE FirstLabel(m.cmd.kind)]
    /\ exists' = [exists EXCEPT ![p] = FALSE]
    /\ running' = [running EXCEPT ![p] = FALSE]
    /\ attempts' = [attempts EXCEPT ![p] = 0]
    /\ probes' = [probes EXCEPT ![p] = 0]
    /\ calls' = [calls EXCEPT ![p] = <<>>]
    /\ result' = [result EXCEPT ![p] = "none"]
    /\ summary' = [summary EXCEPT ![p] = NoSummary]
    /\ envMap' = [envMap EXCEPT ![p] = <<>>]
    /\ UNCHANGED <<lastEvent, containers, images, busy, dockerInstalled>>

\* a status that is 0 whatever the operation returned
ExitStatus_alwaysZero(r) == 0

\* if err != nil { ...; os.Exit(1) }, else main returns
ExitStatus(r) == IF r # "ok" THEN 1 ELSE 0

\* the return of the operation to main
Exit(p) ==
    /\ pc[p] = "done"
    /\ exitCode' = [exitCode EXCEPT ![p] = ExitStatus(result[p])]
    /\ pc' = [pc EXCEPT ![p] = "exited"]
    /\ UNCHANGED <<argv, envMap, lastEvent, containers, images, busy, dockerInstalled,
                   cmd, cfgPort, exists, running, attempts, probes, calls, result, summary>>

\* containers that were not made by this program: their environment lacks
\* POSTGRES_USER, POSTGRES_DB or both
ForeignEnvs ==
    {<<<<"POSTGRES_PASSWORD=", "pw">>>> \o ImageEnv,
     <<<<"POSTGRES_PASSWORD=", "pw">>, <<"POSTGRES_USER=", "app">>>> \o ImageEnv,
     <<<<"POSTGRES_DB=", "shop">>, <<"POSTGRES_PASSWORD=", "pw">>>> \o ImageEnv}

ForeignContainer(n, r, e) ==
    [name |-> n, running |-> r, port |-> CustomPort, version |-> defaultPostgresVersion,
     env |-> e]

CliEngines ==
    {<<>>}
    \cup {<<InitContainer(n, r)>> : n \in Names, r \in BOOLEAN}
    \cup {<<ForeignContainer(n, r, e)>> : n \in Names, r \in BOOLEAN, e \in ForeignEnvs}

CliBusy == {{}, defaultPort..(defaultPort + PortWindow - 1)}

InitCli ==
    /\ containers \in CliEngines
    /\ images = {}
    /\ busy \in CliBusy
    /\ dockerInstalled \in BOOLEAN
    /\ pc = [p \in Procs |-> "idle"]
    /\ cmd = [p \in Procs |-> NoCmd]
    /\ cfgPort = [p \in Procs |-> 0]
    /\ exists = [p \in Procs |-> FALSE]
    /\ running = [p \in Procs |-> FALSE]
    /\ attempts = [p \in Procs |-> 0]
    /\ probes = [p \in Procs |-> 0]
    /\ calls = [p \in Procs |-> <<>>]
    /\ result = [p \in Procs |-> "none"]
    /\ summary = [p \in Procs |-> NoSummary]
    /\ envMap = [p \in Procs |-> <<>>]
    /\ argv = [p \in Procs |-> NoArgv]
    /\ exitCode = [p \in Procs |-> NotExited]
    /\ lastEvent = <<>>

StepCli(p) ==
    \/ Main(p)
    \/ Exit(p)
    \/ CreateEnter(p)
    \/ CreateCheckExists(p)
    \/ CreateFindPort(p)
    \/ CreateImages(p)
    \/ CreatePull(p)
    \/ CreateRun(p)
    \/ waitForPostgres(p)
    \/ CreateFinish(p)
    \/ StartCheck(p)
    \/ StartInvoke(p)
    \/ StopCheck(p)
    \/ StopInvoke(p)
    \/ RemoveCheck(p)
    \/ RemoveInvoke(p)
    \/ ListVersion(p)
    \/ ListFamily(p)
    \/ ShowCheck(p)
    \/ ShowEnv(p)
    \/ ShowPort(p)

NextCli == \E p \in SeqProcs : StepCli(p)

SpecCli == InitCli /\ [][NextCli]_vars

\* the value a container's environment gives a key ("" when no line of it
\* begins with the key), and the container of a name
EnvValue(lines, keyPiece) ==
    IF \E i \in 1..Len(lines) : lines[i] # <<>> /\ lines[i][1] = keyPiece
    THEN Tail(lines[CHOOSE i \in 1..Len(lines) : lines[i] # <<>> /\ lines[i][1] = keyPiece])
    ELSE EmptyWord

ContainerOf(cs, name) == cs[CHOOSE i \in 1..Len(cs) : cs[i].name = name]

\* C21: show of a name no container has returns NotFound without an inspect;
\* a successful show of a container prints its user, password and database
\* as its environment gives them (the user "postgres" when POSTGRES_USER is
\* not set, the database of the user's name when POSTGRES_DB is not set) and,
\* when it runs, its published host port.
C21_ShowReportsContainer ==
    \A p \in Procs :
        (cmd[p].kind = "show" /\ pc[p] \in {"done", "exited"})
        => /\ ~HasContainer(containers, cmd[p].name)
              => /\ result[p] = "NotFound"
                 /\ OpsAt(p, "inspect_env") = {}
                 /\ OpsAt(p, "inspect_port") = {}
           /\ (HasContainer(containers, cmd[p].name) /\ result[p] = "ok")
              => LET c == ContainerOf(containers, cmd[p].name)
                     user == IF EnvValue(c.env, "POSTGRES_USER=") = EmptyWord
                             THEN <<"postgres">> ELSE EnvValue(c.env, "POSTGRES_USER=")
                 IN  /\ summary[p].shown
                     /\ summary[p].user = user
                     /\ summary[p].password = EnvValue(c.env, "POSTGRES_PASSWORD=")
                     /\ summary[p].database =
                           (IF EnvValue(c.env, "POSTGRES_DB=") = EmptyWord
                            THEN user ELSE EnvValue(c.env, "POSTGRES_DB="))
                     /\ c.running => (summary[p].port = c.port /\ summary[p].uriPort = c.port)

\* C22: a process that has exited has status 1 when its operation returned
\* an error or main called no operation (arguments missing or unknown), and
\* status 0 exactly when the operation returned success.
C22_ExitCodeReflectsResult ==
    \A p \in Procs :
        pc[p] = "exited"
        => /\ exitCode[p] \in {0, 1}
           /\ exitCode[p] = 0 <=> result[p] = "ok"

\* C23: a create-custom command line without a --name flag (and with no
\* flag the parse rejects) ends with an error and status 1, and main calls
\* no operation for it: no subprocess, no port probe.
C23_CustomNeedsName ==
    \A p \in Procs :
        (/\ Len(argv[p]) >= 3
         /\ argv[p][2] = WCreateCustom
         /\ ~\E i \in 1..Len(argv[p]) : argv[p][i] \in {WNameFlag, WFlagBogus, WFlagHelp})
        => /\ pc[p] = "exited"
           /\ exitCode[p] = 1
           /\ cmd[p] = NoCmd
           /\ calls[p] = <<>>
           /\ probes[p] = 0

HasEnvArg(args, keyPiece, value) ==
    \E k \in 2..Len(args) : args[k - 1] = WEnv /\ args[k] = <<keyPiece>> \o value

\* C24: the docker run of an easy-mode create (create postgres <name>) sets
\* the user postgres, the password postgres and the database postgres, and
\* publishes host port 5432 when that port was bound at the first attempt.
C24_EasyModeDefaults ==
    \A p \in Procs :
        (Len(argv[p]) >= 2 /\ argv[p][2] = WCreate)
        => \A i \in OpsAt(p, "run") :
              /\ HasEnvArg(calls[p][i].args, "POSTGRES_USER=", <<"postgres">>)
              /\ HasEnvArg(calls[p][i].args, "POSTGRES_PASSWORD=", <<"postgres">>)
              /\ HasEnvArg(calls[p][i].args, "POSTGRES_DB=", <<"postgres">>)
              /\ probes[p] = 1 => PublishedAs(calls[p][i].args, defaultPort)

\* C25: the docker rm of a running container.  Without force the engine
\* refuses: Remove returns the error and the container is still there and
\* running.  With force the rm carries -f; when it exits with success Remove
\* returns success and the container is gone, and when it fails Remove
\* returns the error and the engine is unchanged.
C25_RemoveRunning ==
    [][\A p \in Procs :
          (/\ pc[p] = "rm_invoke"
           /\ pc'[p] # "rm_invoke"
           /\ IsRunning(containers, cmd[p].name))
          => /\ pc'[p] = "done"
             /\ ~cmd[p].force
                => /\ result'[p] = "RemoveFailed"
                   /\ containers' = containers
                   /\ IsRunning(containers', cmd[p].name)
             /\ cmd[p].force
                => /\ LastCall(calls'[p]).args = <<WRm, WForce, cmd[p].name>>
                   /\ LastCall(calls'[p]).res = "ok"
                      => /\ result'[p] = "ok"
                         /\ ~HasContainer(containers', cmd[p].name)
                         /\ containers' = Without(containers, cmd[p].name)
                   /\ LastCall(calls'[p]).res = "fail"
                      => /\ result'[p] = "RemoveFailed"
                         /\ containers' = containers]_vars

C25_Witness ==
    \E p \in Procs :
        /\ Returned(p, "remove")
        /\ cmd[p].force
        /\ running[p]
        /\ result[p] = "ok"
        /\ OpsWith(p, "rm", "ok") # {}
        /\ containers = <<>>

(***************************************************************************)
(* Two CLI processes at once (SpecRace): each runs one create, their       *)
(* subprocesses interleave in any order, and other programs of the host    *)
(* may bind a port at any moment.                                          *)
(***************************************************************************)
RaceCommands ==
    [kind : {"create"}, name : Names, force : {FALSE}, port : {defaultPort},
     version : {defaultPostgresVersion}, custom : {FALSE}]

RacePorts == {defaultPort, defaultPort + 1}

InitRace ==
    /\ containers = <<>>
    /\ images = {defaultPostgresVersion}
    /\ busy = {}
    /\ dockerInstalled = TRUE
    /\ pc = [p \in Procs |-> "idle"]
    /\ cmd = [p \in Procs |-> NoCmd]
    /\ cfgPort = [p \in Procs |-> 0]
    /\ exists = [p \in Procs |-> FALSE]
    /\ running = [p \in Procs |-> FALSE]
    /\ attempts = [p \in Procs |-> 0]
    /\ probes = [p \in Procs |-> 0]
    /\ calls = [p \in Procs |-> <<>>]
    /\ result = [p \in Procs |-> "none"]
    /\ summary = [p \in Procs |-> NoSummary]
    /\ envMap = [p \in Procs |-> <<>>]
    /\ argv = [p \in Procs |-> NoArgv]
    /\ exitCode = [p \in Procs |-> NotExited]
    /\ lastEvent = <<>>

\* a process is started with a create
BeginCreate(p) ==
    /\ pc[p] = "idle"
    /\ \E c \in RaceCommands :
          /\ cmd' = [cmd EXCEPT ![p] = c]
          /\ pc' = [pc EXCEPT ![p] = FirstLabel(c.kind)]
          /\ cfgPort' = [cfgPort EXCEPT ![p] = c.port]
    /\ UNCHANGED <<front, envMap, lastEvent, containers, images, busy, dockerInstalled,
                   exists, running, attempts, probes, calls, result, summary>>

\* another program of the host binds a free port
Bind ==
    /\ \E q \in RacePorts :
          /\ ~Occupied(containers, busy, q)
          /\ busy' = busy \cup {q}
    /\ UNCHANGED <<front, envMap, lastEvent, containers, images, dockerInstalled, pc, cmd,
                   cfgPort, exists, running, attempts, probes, calls, result, summary>>

StepRace(p) ==
    \/ BeginCreate(p)
    \/ CreateEnter(p)
    \/ CreateCheckExists(p)
    \/ CreateFindPort(p)
    \/ CreateImages(p)
    \/ CreatePull(p)
    \/ CreateRun(p)
    \/ waitForPostgres(p)
    \/ CreateFinish(p)

NextRace == (\E p \in Procs : StepRace(p)) \/ Bind

SpecRace == InitRace /\ [][NextRace]_vars

\* C26: the docker run of a create whose port is occupied at that moment
\* (bound after the probe by another program or taken by the container of a
\* concurrent create) fails, and the create returns the run failure at once:
\* it probes no further port and keeps the port it had chosen
C26_RunOnOccupiedPortFails ==
    [][\A p \in Procs :
          (pc[p] = "c_run" /\ pc'[p] # "c_run" /\ Occupied(containers, busy, cfgPort[p]))
             => /\ pc'[p] = "done"
                /\ result'[p] = "RunFailed"
                /\ calls'[p][Len(calls'[p])].op = "run"
                /\ calls'[p][Len(calls'[p])].res = "fail"
                /\ probes'[p] = probes[p]
                /\ cfgPort'[p] = cfgPort[p]]_vars

\* the race happened: the probe of p bound the port (so it was free then),
\* the port was taken before docker run, which left a created, never started
\* container behind, and create returned the run failure
C26_Witness ==
    \E p \in Procs :
       /\ Returned(p, "create") /\ result[p] = "RunFailed"
       /\ probes[p] >= 1
       /\ cfgPort[p] = cmd[p].port + probes[p] - 1
       /\ Occupied(containers, busy, cfgPort[p])
       /\ \E i \in DOMAIN containers :
             /\ containers[i].name = cmd[p].name
             /\ ~containers[i].running
             /\ containers[i].port = cfgPort[p]

\* C27: of two concurrent creates of one name at most one has a successful
\* docker run and at most one returns success, the other returns an error,
\* and the engine never holds two containers of one name
C27_OneCreateWins ==
    /\ \A n \in Names :
          Cardinality({i \in DOMAIN containers : containers[i].name = n}) <= 1
    /\ \A p, q \in Procs :
          (p # q /\ cmd[p].kind = "create" /\ cmd[q].kind = "create"
                 /\ cmd[p].name = cmd[q].name)
             => /\ ~(OpsWith(p, "run", "ok") # {} /\ OpsWith(q, "run", "ok") # {})
                /\ ~(Returned(p, "create") /\ result[p] = "ok"
                        /\ Returned(q, "create") /\ result[q] = "ok")
                /\ (Returned(p, "create") /\ result[p] = "ok" /\ Returned(q, "create"))
                      => result[q] # "ok"

\* both creates passed the existence check before either container existed;
\* one succeeded and the docker run of the other was refused
C27_Witness ==
    \E p, q \in Procs :
       /\ p # q /\ cmd[p].name = cmd[q].name
       /\ Returned(p, "create") /\ result[p] = "ok"
       /\ Returned(q, "create") /\ result[q] = "RunFailed"
       /\ OpsWith(q, "ps", "empty") # {}
       /\ Cardinality({i \in DOMAIN containers : containers[i].name = cmd[p].name}) = 1

(***************************************************************************)
(* The same commands on an engine that starts empty, with the last event   *)
(* of each name recorded (SpecHist): "created" by a docker run that left a *)
(* container, "timeout" by a create that gave up waiting, "removed" by a   *)
(* docker rm that succeeded.                                               *)
(***************************************************************************)
NoEvents == [n \in Names |-> "none"]

InitHist ==
    /\ containers = <<>>
    /\ images = {defaultPostgresVersion}
    /\ busy = {}
    /\ dockerInstalled = TRUE
    /\ pc = [p \in Procs |-> "idle"]
    /\ cmd = [p \in Procs |-> NoCmd]
    /\ cfgPort = [p \in Procs |-> 0]
    /\ exists = [p \in Procs |-> FALSE]
    /\ running = [p \in Procs |-> FALSE]
    /\ attempts = [p \in Procs |-> 0]
    /\ probes = [p \in Procs |-> 0]
    /\ calls = [p \in Procs |-> <<>>]
    /\ result = [p \in Procs |-> "none"]
    /\ summary = [p \in Procs |-> NoSummary]
    /\ envMap = [p \in Procs |-> <<>>]
    /\ argv = [p \in Procs |-> NoArgv]
    /\ exitCode = [p \in Procs |-> NotExited]
    /\ lastEvent = NoEvents

SpecHist == InitHist /\ [][Next]_vars

\* C28: while the last event of a name is the readiness timeout of a create,
\* a later create of that name invokes no docker run and ends with
\* AlreadyExists; once the last event is a successful remove, a create of
\* that name does not end with AlreadyExists
C28_TimeoutBlocksUntilRemoved ==
    \A p \in Procs :
       (cmd[p].kind = "create" /\ cmd[p].name \in DOMAIN lastEvent)
          => /\ (lastEvent[cmd[p].name] = "timeout"
                   /\ ~(pc[p] = "done" /\ result[p] = "ReadinessTimeout"))
                   => /\ OpsAt(p, "run") = {}
                      /\ pc[p] = "done" => result[p] = "AlreadyExists"
             /\ (lastEvent[cmd[p].name] = "removed" /\ pc[p] = "done")
                   => result[p] # "AlreadyExists"

\* C29: a successful create made exactly one docker run, its -p argument
\* publishes the port that the summary and the URI show, that port is the
\* decimal text of the configuration printed, and the container holds it on
\* the host; also when the probe moved the port away from 5432
C29_PublishedPortIsShownPort ==
    \A p \in Procs :
       (Returned(p, "create") /\ result[p] = "ok")
          => /\ summary[p].shown
             /\ summary[p].uriPort = summary[p].port
             /\ ConfigOf(cmd[p], cfgPort[p]).port = Itoa(summary[p].port)
             /\ Cardinality(OpsAt(p, "run")) = 1
             /\ \A i \in OpsAt(p, "run") :
                   /\ calls[p][i].res = "ok"
                   /\ PublishedAs(calls[p][i].args, summary[p].port)
                   /\ Cardinality({k \in 1..Len(calls[p][i].args) :
                                      calls[p][i].args[k] = WPublish}) = 1
             /\ \E i \in DOMAIN containers :
                   /\ containers[i].name = cmd[p].name
                   /\ containers[i].port = summary[p].port

\* a create of the default port that succeeded on a reassigned port
C29_Witness ==
    \E p \in Procs :
       /\ Returned(p, "create") /\ result[p] = "ok"
       /\ cmd[p].port = defaultPort
       /\ summary[p].port = defaultPort + 1
       /\ summary[p].uriPort = defaultPort + 1
       /\ \E i \in OpsWith(p, "run", "ok") : PublishedAs(calls[p][i].args, defaultPort + 1)

\* C30: what create, start, stop and remove report about a name is a fact of
\* the container of exactly that name: AlreadyExists only when it exists,
\* NotFound (after a status query that ran) only when it does not,
\* AlreadyRunning only when it runs, AlreadyStopped only when it exists and
\* does not run; and no step of an operation on a name changes a container
\* of another name
C30_OnlyTheNamedContainer ==
    /\ [](\A p \in Procs :
             pc[p] = "done"
             => /\ (cmd[p].kind = "create" /\ result[p] = "AlreadyExists")
                      => HasContainer(containers, cmd[p].name)
                /\ (cmd[p].kind \in {"start", "stop", "remove"}
                       /\ result[p] = "NotFound" /\ OpsWith(p, "ps", "fail") = {})
                      => ~HasContainer(containers, cmd[p].name)
                /\ (cmd[p].kind = "start" /\ result[p] = "AlreadyRunning")
                      => IsRunning(containers, cmd[p].name)
                /\ (cmd[p].kind = "stop" /\ result[p] = "AlreadyStopped")
                      => /\ HasContainer(containers, cmd[p].name)
                         /\ ~IsRunning(containers, cmd[p].name))
    /\ [][\A p \in Procs :
             pc[p] \notin {"idle", "done"}
             => Without(containers', cmd[p].name) = Without(containers, cmd[p].name)]_vars

====
